---- MODULE Spec2Model ----
(***************************************************************************)
(* Model of gcGroupbyExtension.GroupByPipedTransforms, the "gc" accessor   *)
(* that pipes transforms over the groups of a pandas groupby and           *)
(* reassembles the per-group results (concat / toJSON).                    *)
(*                                                                         *)
(* Tables are positional: index, column labels, column dtypes and one      *)
(* sequence of cells per column.  Numeric cells are extended rationals     *)
(* <<n, d>>: d > 0 is the finite number n/d, <<1,0>> and <<-1,0>> are      *)
(* +inf and -inf, <<0,0>> is NaN, which is what numpy arithmetic yields    *)
(* for x/0 and 0/0.  Positions are 0-based, as in Python.                  *)
(***************************************************************************)
EXTENDS Integers, Sequences, FiniteSets, TLC

VARIABLES obj, pipedFunctions, registered, last

vars == <<obj, pipedFunctions, registered, last>>

(* Bounds of the explored inputs. *)
MaxRows == 2
MaxLabel == 1
MaxVal == 1
MaxPipe == 2

-----------------------------------------------------------------------------
(* Numeric cells *)

Abs(n) == IF n < 0 THEN -n ELSE n

Sign(n) == IF n > 0 THEN 1 ELSE IF n < 0 THEN -1 ELSE 0

RECURSIVE Gcd(_, _)
Gcd(a, b) == IF b = 0 THEN a ELSE Gcd(b, a % b)

Num(n, d) ==
    IF d = 0 THEN <<Sign(n), 0>>
    ELSE LET g == Gcd(Abs(n), Abs(d))
         IN  <<(Sign(d) * n) \div g, Abs(d) \div g>>

Int2Num(n) == <<n, 1>>

NaN == <<0, 0>>

IsFinite(a) == a[2] # 0

FNeg(a) == <<-a[1], a[2]>>

FAdd(a, b) ==
    IF a[2] = 0 /\ b[2] = 0 THEN (IF a[1] = b[1] THEN a ELSE NaN)
    ELSE IF a[2] = 0 THEN a
    ELSE IF b[2] = 0 THEN b
    ELSE Num(a[1] * b[2] + b[1] * a[2], a[2] * b[2])

FSub(a, b) == FAdd(a, FNeg(b))

FMul(a, b) == Num(a[1] * b[1], a[2] * b[2])

FDiv(a, b) == FMul(a, Num(b[2], b[1]))

-----------------------------------------------------------------------------
(* Text forms: f"{x}", str(Timestamp), Timestamp.isoformat() *)

Digit(n) == <<"0", "1", "2", "3", "4", "5", "6", "7", "8", "9">>[n + 1]

RECURSIVE NatStr(_)
NatStr(n) == IF n < 10 THEN Digit(n) ELSE NatStr(n \div 10) \o Digit(n % 10)

IntStr(n) == IF n < 0 THEN "-" \o NatStr(-n) ELSE NatStr(n)

Pad2(n) == IF n < 10 THEN "0" \o Digit(n) ELSE NatStr(n)

(* A time stamp s seconds from the epoch, |s| < 60, with the given *)
(* separator between date and time.                                *)
StampStr(s, dateSep) ==
    IF s >= 0 THEN "1970-01-01" \o dateSep \o "00:00:" \o Pad2(s)
    ELSE "1969-12-31" \o dateSep \o "23:59:" \o Pad2(60 + s)

DeltaStr(s) ==
    IF s >= 0 THEN "0 days 00:00:" \o Pad2(s)
    ELSE "-1 days +23:59:" \o Pad2(60 + s)

(* f"{y}" of an axis label y of an axis with the given dtype *)
LabelStr(dtype, y) ==
    CASE dtype = "int64" -> IntStr(y)
      [] dtype = "datetime64" -> StampStr(y, " ")
      [] dtype = "timedelta64" -> DeltaStr(y)
      [] OTHER -> y

-----------------------------------------------------------------------------
(* Sequences *)

Range(s) == {s[i] : i \in DOMAIN s}

RECURSIVE Flatten(_)
Flatten(ss) == IF ss = <<>> THEN <<>> ELSE Head(ss) \o Flatten(Tail(ss))

RECURSIVE Unique(_)
Unique(s) ==
    IF s = <<>> THEN <<>>
    ELSE LET r == Unique(SubSeq(s, 1, Len(s) - 1))
         IN  IF s[Len(s)] \in Range(r) THEN r ELSE Append(r, s[Len(s)])

Reverse(s) == [i \in 1..Len(s) |-> s[Len(s) + 1 - i]]

HasDuplicates(s) == \E i, j \in DOMAIN s : i # j /\ s[i] = s[j]

(* list.index: the 0-based position of the first element equal to v *)
FirstPos(v, s) == (CHOOSE i \in DOMAIN s : s[i] = v /\ \A j \in 1..(i - 1) : s[j] # v) - 1

(* the positions of s, in order, whose element is one of the given values *)
Positions(s, values) == SelectSeq([i \in 1..Len(s) |-> i], LAMBDA i : s[i] \in values)

(* x.iloc[pos] / x[pos]: negative positions count from the end *)
InRange(pos, n) == -n <= pos /\ pos < n

Iloc(s, pos) == IF pos >= 0 THEN s[pos + 1] ELSE s[Len(s) + pos + 1]

-----------------------------------------------------------------------------
(* Tables, errors, groups *)

NRows(df) == Len(df.index.vals)

Raise(e) == [error |-> e]

IsError(x) == "error" \in DOMAIN x

(* the rows of df at the given 1-based positions, in that order *)
TakeRows(df, rows) ==
    [df EXCEPT !.index.vals = [i \in 1..Len(rows) |-> df.index.vals[rows[i]]],
               !.data = [c \in 1..Len(df.data) |->
                            [i \in 1..Len(rows) |-> df.data[c][rows[i]]]]]

(* the group keys in sorted order (groupby's default sort=True) *)
KeyOrder == <<"a", "b">>

ColPos(df, name) == FirstPos(name, df.columns) + 1

GroupKeys(df, by, sort) ==
    LET present == Unique(df.data[ColPos(df, by)])
    IN  IF sort THEN SelectSeq(KeyOrder, LAMBDA k : k \in Range(present))
        ELSE present

(* iterating the wrapped groupby: the pairs x = (x[0], x[1]) = (name, df) *)
Groups(o) ==
    LET keys == GroupKeys(o.df, o.by, o.sort)
        kc == o.df.data[ColPos(o.df, o.by)]
    IN  [g \in 1..Len(keys) |->
            [name |-> keys[g],
             df |-> TakeRows(o.df, Positions(kc, {keys[g]}))]]

-----------------------------------------------------------------------------
(* Selectors and the axis resolver *)

None == [type |-> "None", val |-> 0]

PyInt(n) == [type |-> "int", val |-> n]

NpInt(n) == [type |-> "int64", val |-> n]

PyStr(s) == [type |-> "str", val |-> s]

(* type(idxList[0]): the scalar type an axis of this dtype hands out *)
ElemType(dtype) ==
    CASE dtype = "int64" -> "int64"
      [] dtype = "datetime64" -> "Timestamp"
      [] dtype = "timedelta64" -> "Timedelta"
      [] OTHER -> "str"

(* idx in idxList: equality on the value, blind to int versus numpy.int64 and *)
(* to an integer versus the integer value of a time stamp                      *)
Contains(idx, idxList) ==
    IF idxList.dtype = "object"
    THEN idx.type = "str" /\ idx.val \in Range(idxList.vals)
    ELSE idx.type \in {"int", "int64"} /\ idx.val \in Range(idxList.vals)

GetIdxFrom(idx, idxList, axis) ==
    IF Contains(idx, idxList) /\ idx.type = ElemType(idxList.dtype)
    THEN [pos |-> FirstPos(idx.val, idxList.vals)]
    ELSE IF idx.type # "int" THEN Raise("TypeError")
    ELSE [pos |-> idx.val]

-----------------------------------------------------------------------------
(* The row/column operator *)

IsNumeric(dtype) == dtype = "number"

(* df.select_dtypes(include=[np.number]).columns, as 1-based column positions *)
NumericCols(df) == Positions(df.dtypes, {"number"})

Operations == {"subtract", "add", "multiply", "divide"}

(* the operands taken the other way round: x.iloc[pos] - x *)
OperateSwapped(operation, a, b) ==
    CASE operation = "subtract" -> FSub(b, a)
      [] operation = "add" -> FAdd(b, a)
      [] operation = "multiply" -> FMul(b, a)
      [] operation = "divide" -> FDiv(b, a)

Operate(operation, a, b) ==
    CASE operation = "subtract" -> FSub(a, b)
      [] operation = "add" -> FAdd(a, b)
      [] operation = "multiply" -> FMul(a, b)
      [] operation = "divide" -> FDiv(a, b)

(* df.loc[:, numericCols] = df.loc[:, numericCols].apply(func, axis=axis):    *)
(* axis 'index' hands func each column x (x.iloc[pos] is the cell of row pos), *)
(* axis 'columns' each row x (x.iloc[pos] is the cell of numeric column pos)   *)
ApplyOperation(df, numericCols, axis, pos, operation) ==
    LET n == IF axis = "index" THEN NRows(df) ELSE Len(numericCols)
        Ref(c, i) == IF axis = "index" THEN Iloc(df.data[c], pos)
                     ELSE df.data[Iloc(numericCols, pos)][i]
    IN  IF numericCols = <<>> \/ NRows(df) = 0 THEN df
        ELSE IF ~InRange(pos, n) THEN Raise("IndexError")
        ELSE [df EXCEPT !.data = [c \in 1..Len(df.data) |->
                 IF IsNumeric(df.dtypes[c])
                 THEN [i \in 1..NRows(df) |-> Operate(operation, df.data[c][i], Ref(c, i))]
                 ELSE df.data[c]]]

(* the position _execute resolves: pos of line 79 or 82 *)
ResolvePos(df, index, column) ==
    LET numericCols == NumericCols(df)
    IN  IF column.type = "None" THEN GetIdxFrom(index, df.index, "index")
        ELSE GetIdxFrom(column,
                        [dtype |-> "object",
                         vals |-> [i \in 1..Len(numericCols) |-> df.columns[numericCols[i]]]],
                        "columns")

Execute(df, index, column, operation) ==
    LET r == ResolvePos(df, index, column)
        axis == IF column.type = "None" THEN "index" ELSE "columns"
    IN  IF IsError(r) THEN r
        ELSE IF operation \notin Operations THEN Raise("ValueError")
        ELSE ApplyOperation(df, NumericCols(df), axis, r.pos, operation)

-----------------------------------------------------------------------------
(* The index normalizer.  pd.to_datetime reads the offsets of a time-like axis *)
(* as times counted from the epoch (pandas releases that refuse durations     *)
(* raise TypeError there instead).                                            *)

(* the first entry taken as the zero whatever resetPosition is *)
ResetIndexFromFirst(df, resetPosition, handleFuture) ==
    LET x == df.index.vals
        diffType == IF df.index.dtype = "datetime64" THEN "timedelta64" ELSE df.index.dtype
    IN  IF ~InRange(resetPosition, Len(x)) THEN Raise("IndexError")
        ELSE IF df.index.dtype = "object" THEN Raise("TypeError")
        ELSE [df EXCEPT !.index =
                 [dtype |-> IF df.index.dtype = "datetime64" /\ handleFuture
                            THEN "datetime64" ELSE diffType,
                  vals |-> [i \in 1..Len(x) |-> x[i] - x[1]]]]

ResetIndex(df, resetPosition, handleFuture) ==
    LET isIndexTimeType == df.index.dtype = "datetime64"
        x == df.index.vals
        diffType == IF df.index.dtype = "datetime64" THEN "timedelta64" ELSE df.index.dtype
    IN  IF ~InRange(resetPosition, Len(x)) THEN Raise("IndexError")
        ELSE IF df.index.dtype = "object" THEN Raise("TypeError")
        ELSE [df EXCEPT !.index =
                 [dtype |-> IF isIndexTimeType /\ handleFuture THEN "datetime64" ELSE diffType,
                  vals |-> [i \in 1..Len(x) |-> x[i] - Iloc(x, resetPosition)]]]

-----------------------------------------------------------------------------
(* Piped functions *)

(* callables a user hands to pipe(): one that reorders the columns, one that *)
(* drops a column, one that raises                                           *)
UserFunctions == {"reverseColumns", "raise"}

ApplyUser(name, df) ==
    CASE name = "reverseColumns" ->
            [df EXCEPT !.columns = Reverse(@), !.dtypes = Reverse(@), !.data = Reverse(@)]
      [] name = "dropLastColumn" ->
            IF df.columns = <<>> THEN df
            ELSE [df EXCEPT !.columns = SubSeq(@, 1, Len(@) - 1),
                            !.dtypes = SubSeq(@, 1, Len(@) - 1),
                            !.data = SubSeq(@, 1, Len(@) - 1)]
      [] OTHER -> Raise("RuntimeError")

UserFn(name) == [f |-> name, index |-> None, column |-> None, operation |-> ""]

(* lambda x: self._execute(x, index, column, operation=operation) *)
ExecuteFn(index, column, operation) ==
    [f |-> "_execute", index |-> index, column |-> column, operation |-> operation]

(* self._resetIndex, which the pipeline calls with the table alone *)
ResetIndexFn == [f |-> "_resetIndex", index |-> None, column |-> None, operation |-> ""]

(* g(f) of the reduce: an exception raised earlier is still propagating *)
Call(g, x) ==
    IF IsError(x) THEN x
    ELSE CASE g.f = "_execute" -> Execute(x, g.index, g.column, g.operation)
           [] g.f = "_resetIndex" -> ResetIndex(x, 0, TRUE)
           [] OTHER -> ApplyUser(g.f, x)

(* the functions applied last-registered first *)
RECURSIVE PipeRightToLeft(_, _)
PipeRightToLeft(funcs, x) ==
    IF funcs = <<>> THEN x
    ELSE PipeRightToLeft(SubSeq(funcs, 1, Len(funcs) - 1), Call(funcs[Len(funcs)], x))

(* _pipe: the composed function is x -> reduce(lambda f, g: g(f), list(funcs), x) *)
RECURSIVE Pipe(_, _)
Pipe(funcs, x) == IF funcs = <<>> THEN x ELSE Pipe(Tail(funcs), Call(Head(funcs), x))

-----------------------------------------------------------------------------
(* pd.concat: label-aligning concatenation of the per-group tables *)

(* the cell a missing label leaves behind: NaN, shown as text in an object column *)
Missing(dtype) == IF IsNumeric(dtype) THEN NaN ELSE "NaN"

(* axis=0: rows stacked in piece order, columns the union of the pieces' columns *)
ConcatRows(pieces) ==
    LET columns == Unique(Flatten([p \in 1..Len(pieces) |-> pieces[p].columns]))
        Owner(L) == CHOOSE p \in 1..Len(pieces) :
                        /\ L \in Range(pieces[p].columns)
                        /\ \A q \in 1..(p - 1) : L \notin Range(pieces[q].columns)
        DtypeOf(L) == pieces[Owner(L)].dtypes[ColPos(pieces[Owner(L)], L)]
        Part(p, L) == IF L \in Range(pieces[p].columns)
                      THEN pieces[p].data[ColPos(pieces[p], L)]
                      ELSE [i \in 1..NRows(pieces[p]) |-> Missing(DtypeOf(L))]
    IN  [index |-> [dtype |-> pieces[1].index.dtype,
                    vals |-> Flatten([p \in 1..Len(pieces) |-> pieces[p].index.vals])],
         columns |-> columns,
         dtypes |-> [c \in 1..Len(columns) |-> DtypeOf(columns[c])],
         data |-> [c \in 1..Len(columns) |->
                      Flatten([p \in 1..Len(pieces) |-> Part(p, columns[c])])]]

(* axis=1: columns side by side in piece order, rows the union of the pieces'    *)
(* row labels in order of first appearance; identical indexes are kept as they   *)
(* are, otherwise a piece with a repeated row label cannot be reindexed          *)
ConcatColumns(pieces) ==
    LET same == \A p \in 1..Len(pieces) : pieces[p].index.vals = pieces[1].index.vals
        rows == IF same THEN pieces[1].index.vals
                ELSE Unique(Flatten([p \in 1..Len(pieces) |-> pieces[p].index.vals]))
        Aligned(p, c) ==
            IF same THEN pieces[p].data[c]
            ELSE [r \in 1..Len(rows) |->
                     IF rows[r] \in Range(pieces[p].index.vals)
                     THEN pieces[p].data[c][FirstPos(rows[r], pieces[p].index.vals) + 1]
                     ELSE Missing(pieces[p].dtypes[c])]
    IN  IF ~same /\ \E p \in 1..Len(pieces) : HasDuplicates(pieces[p].index.vals)
        THEN Raise("InvalidIndexError")
        ELSE [index |-> [dtype |-> pieces[1].index.dtype, vals |-> rows],
              columns |-> Flatten([p \in 1..Len(pieces) |-> pieces[p].columns]),
              dtypes |-> Flatten([p \in 1..Len(pieces) |-> pieces[p].dtypes]),
              data |-> Flatten([p \in 1..Len(pieces) |->
                          [c \in 1..Len(pieces[p].data) |-> Aligned(p, c)]])]

PdConcat(pieces, axis) ==
    IF pieces = <<>> THEN Raise("ValueError")
    ELSE IF axis = 0 THEN ConcatRows(pieces)
    ELSE ConcatColumns(pieces)

-----------------------------------------------------------------------------
(* concat *)

(* no check that the object is a groupby *)
ValidateNothing(o) == "none"

ValidatePipelineObject(o) == IF o.grouped THEN "none" ELSE "TypeError"

(* newNames: built from the groups of self._obj, iterated once more *)
NewNames(groups, multiIndex, sep, axis) ==
    LET Name(g, dtype, y) == IF multiIndex = "join"
                             THEN LabelStr(dtype, y) \o sep \o groups[g].name
                             ELSE <<groups[g].name, y>>
    IN  Flatten([g \in 1..Len(groups) |->
            IF axis = 1
            THEN [c \in 1..Len(groups[g].df.columns) |->
                     Name(g, "object", groups[g].df.columns[c])]
            ELSE [i \in 1..NRows(groups[g].df) |->
                     Name(g, groups[g].df.index.dtype, groups[g].df.index.vals[i])]])

(* concatenated.columns = newNames / concatenated.index = newNames *)
SetAxis(concatenated, newNames, multiIndex, axis) ==
    IF axis = 1
    THEN IF Len(newNames) # Len(concatenated.columns) THEN Raise("ValueError")
         ELSE [concatenated EXCEPT !.columns = newNames]
    ELSE IF Len(newNames) # NRows(concatenated) THEN Raise("ValueError")
         ELSE [concatenated EXCEPT !.index =
                  [dtype |-> IF multiIndex = "join" THEN "object" ELSE "multi",
                   vals |-> newNames]]

Relabel(concatenated, groups, multiIndex, sep, axis) ==
    IF axis \in {0, 1} /\ multiIndex \in {"join", "hierarchy"}
    THEN SetAxis(concatenated, NewNames(groups, multiIndex, sep, axis), multiIndex, axis)
    ELSE concatenated

(* the pieces of a lazily mapped sequence that are produced before the first *)
(* one that raises, and the error that one raises                            *)
UntilRaise(all) ==
    LET bad == {g \in 1..Len(all) : IsError(all[g])}
        stop == IF bad = {} THEN Len(all) + 1
                ELSE CHOOSE g \in bad : \A h \in bad : g <= h
    IN  [pieces |-> SubSeq(all, 1, stop - 1),
         raised |-> IF bad = {} THEN "none" ELSE all[stop].error]

(* map(lambda x: self.pipeline(x[1]), self._obj), consumed by pd.concat; the *)
(* pipeline property composes the piped functions it is given               *)
Transformed(groups, funcs) ==
    UntilRaise([g \in 1..Len(groups) |-> Pipe(funcs, groups[g].df)])

(* the value concat returns, or the error the concatenation or relabeling raises *)
Returned(pieces, result) ==
    [raised |-> IF IsError(result) THEN result.error ELSE "none",
     pieces |-> pieces, result |-> result]

Reassemble(groups, pieces, concatenated, multiIndex, sep, axis) ==
    IF IsError(concatenated) THEN Returned(pieces, concatenated)
    ELSE Returned(pieces, Relabel(concatenated, groups, multiIndex, sep, axis))

Concatenated(groups, t, multiIndex, sep, axis) ==
    IF t.raised # "none"
    THEN [raised |-> t.raised, pieces |-> t.pieces, result |-> Raise(t.raised)]
    ELSE Reassemble(groups, t.pieces, PdConcat(t.pieces, axis), multiIndex, sep, axis)

WithGroups(groups, funcs, multiIndex, sep, axis) ==
    Concatenated(groups, Transformed(groups, funcs), multiIndex, sep, axis)

(* what concat returns or raises, with the pieces it transformed *)
ConcatOutcome(o, funcs, multiIndex, sep, axis) ==
    IF ValidatePipelineObject(o) # "none"
    THEN [raised |-> ValidatePipelineObject(o), pieces |-> <<>>,
          result |-> Raise(ValidatePipelineObject(o))]
    ELSE IF ~o.grouped
    THEN \* iterating a table yields its column labels, and x[1] of the label "k" raises
         [raised |-> "IndexError", pieces |-> <<>>, result |-> Raise("IndexError")]
    ELSE WithGroups(Groups(o), funcs, multiIndex, sep, axis)

(* the piped functions never cleared *)
AfterConcatKeeps(funcs, raised) == funcs

(* the piped functions cleared before anything can raise *)
AfterConcatClears(funcs, raised) == <<>>

(* self._pipedFunctions after concat: line 132 is reached only when nothing raised *)
AfterConcat(funcs, raised) == IF raised = "none" THEN <<>> ELSE funcs

-----------------------------------------------------------------------------
(* toJSON *)

(* d[key] = value on an insertion-ordered dict held as <<key, value>> pairs *)
DictSet(d, key, value) ==
    IF \E i \in DOMAIN d : d[i][1] = key
    THEN [i \in DOMAIN d |-> IF d[i][1] = key THEN <<key, value>> ELSE d[i]]
    ELSE Append(d, <<key, value>>)

RECURSIVE RowDict(_, _, _)
RowDict(df, i, c) ==
    IF c = 0 THEN <<>>
    ELSE DictSet(RowDict(df, i, c - 1), df.columns[c], df.data[c][i])

(* concatenated.to_dict(orient="records") *)
ToDict(df) == [i \in 1..NRows(df) |-> RowDict(df, i, Len(df.columns))]

(* the label formatted without isoformat() *)
RowTextPlain(index, i) == LabelStr(index.dtype, index.vals[i])

(* f"{idx}" with idx = index.isoformat() on a time-like index *)
RowText(index, i) ==
    IF index.dtype = "datetime64" THEN StampStr(index.vals[i], "T")
    ELSE LabelStr(index.dtype, index.vals[i])

Nothing == [nothing |-> TRUE]

(* the document written to fileName: {"data": dict_toExport} *)
Export(concatenated, rowIndicesFieldName) ==
    LET dict_toExport == ToDict(concatenated)
    IN  [data |-> IF rowIndicesFieldName # ""
                  THEN [i \in 1..Len(dict_toExport) |->
                           DictSet(dict_toExport[i], rowIndicesFieldName,
                                   RowText(concatenated.index, i))]
                  ELSE dict_toExport]

-----------------------------------------------------------------------------
(* The wrapper: state, inputs and calls *)

(* the tables a wrapper is created on: a text key column k and a numeric column v, *)
(* with row labels, keys and values drawn from the given sets                      *)
Tables(nrows, labels, values) ==
    UNION {
        { [index |-> [dtype |-> d, vals |-> iv],
           columns |-> <<"k", "v">>,
           dtypes |-> <<"object", "number">>,
           data |-> <<kv, [i \in 1..n |-> Int2Num(vv[i])]>>] :
            d \in {"int64", "datetime64"},
            iv \in [1..n -> labels],
            kv \in [1..n -> Range(KeyOrder)],
            vv \in [1..n -> values] } : n \in nrows }

InputTables == Tables(1..MaxRows, 0..MaxLabel, {MaxVal})

(* what the latest call did: its arguments, the error it raised ("none" when it     *)
(* returned), the pipeline and the registrations it found, the table it was handed, *)
(* the position it resolved, the per-group pieces, its result, the document written *)
Outcome(op, args, raised, funcs, since, input, pos, pieces, result, written) ==
    [op |-> op, args |-> args, raised |-> raised, funcs |-> funcs, since |-> since,
     input |-> input, pos |-> pos, pieces |-> pieces, result |-> result,
     written |-> written]

Simple(op, args, raised) ==
    Outcome(op, args, raised, pipedFunctions, registered, Nothing, Nothing, <<>>,
            Nothing, Nothing)

(* __init__: the wrapped copy of the table, no piped function *)
Init ==
    /\ obj \in {[grouped |-> FALSE, df |-> t, by |-> "", sort |-> TRUE] : t \in InputTables}
    /\ pipedFunctions = <<>>
    /\ registered = <<>>
    /\ last = Outcome("__init__", <<>>, "none", <<>>, <<>>, Nothing, Nothing, <<>>,
                      Nothing, Nothing)

(* _rename: only a single-column table is rebuilt under the new name *)
RenameDf(df, colName) ==
    IF Len(df.columns) = 1 THEN [df EXCEPT !.columns = <<colName>>] ELSE df

(* __call__(renameCol): a groupby object has no columns to count *)
CallRename(renameCol) ==
    /\ obj' = IF obj.grouped THEN obj ELSE [obj EXCEPT !.df = RenameDf(obj.df, renameCol)]
    /\ last' = Simple("__call__", [renameCol |-> renameCol],
                     IF obj.grouped THEN "AttributeError" ELSE "none")
    /\ UNCHANGED <<pipedFunctions, registered>>

(* grouping again whatever the wrapped object is *)
GroupbyAgain(o, grouper, sort) ==
    [grouped |-> TRUE, df |-> o.df, by |-> grouper, sort |-> sort]

(* self._obj after groupby(grouper, sort=sort) *)
GroupbyResult(o, grouper, sort) ==
    IF o.grouped THEN o
    ELSE [grouped |-> TRUE, df |-> o.df, by |-> grouper, sort |-> sort]

Groupby(grouper, sort) ==
    /\ obj' = GroupbyResult(obj, grouper, sort)
    /\ last' = Simple("groupby", [grouper |-> grouper, sort |-> sort], "none")
    /\ UNCHANGED <<pipedFunctions, registered>>

(* self._pipedFunctions.extend(functions) *)
Extend(functions) ==
    /\ Len(pipedFunctions) + Len(functions) <= MaxPipe
    /\ pipedFunctions' = pipedFunctions \o functions
    /\ registered' = registered \o functions
    /\ last' = Simple("pipe", functions, "none")
    /\ UNCHANGED obj

PipeCall ==
    \E functions \in UNION {[1..n -> {UserFn(u) : u \in UserFunctions}] : n \in 1..2} :
        Extend(functions)

ResetStartingValues == Extend(<<ExecuteFn(PyInt(0), None, "subtract")>>)

Subtract == \E index \in {PyInt(0), NpInt(1)} : Extend(<<ExecuteFn(index, None, "subtract")>>)

Add == Extend(<<ExecuteFn(PyInt(0), None, "add")>>)

Multiply == Extend(<<ExecuteFn(PyInt(0), None, "multiply")>>)

Divide == Extend(<<ExecuteFn(PyInt(0), None, "divide")>>)

(* resetIndex(handleFuture): the argument is not passed on *)
ResetIndexCall == \E handleFuture \in BOOLEAN : Extend(<<ResetIndexFn>>)

Concat ==
    \E style \in {<<"hierarchy", "|">>, <<"join", "|">>, <<"join", "_">>, <<"False", "|">>},
       axis \in {0, 1} :
        LET multiIndex == style[1]
            sep == style[2]
        IN \E r \in {ConcatOutcome(obj, pipedFunctions, multiIndex, sep, axis)} :
            /\ pipedFunctions' = AfterConcat(pipedFunctions, r.raised)
            /\ registered' = IF r.raised = "none" THEN <<>> ELSE registered
            /\ last' = Outcome("concat",
                               [multiIndex |-> multiIndex, sep |-> sep, axis |-> axis],
                               r.raised, pipedFunctions, registered, Nothing, Nothing,
                               r.pieces, r.result, Nothing)
            /\ UNCHANGED obj

ToJSON ==
    \E rowIndicesFieldName \in {"idx_", ""}, addMultiIndexWithSep \in {"|", ""},
       axis \in {0, 1} :
        LET multiIndex == IF addMultiIndexWithSep # "" THEN "join" ELSE "False"
        IN \E r \in {ConcatOutcome(obj, pipedFunctions, multiIndex, addMultiIndexWithSep, axis)} :
            /\ pipedFunctions' = AfterConcat(pipedFunctions, r.raised)
            /\ registered' = IF r.raised = "none" THEN <<>> ELSE registered
            /\ last' = Outcome("toJSON",
                               [rowIndicesFieldName |-> rowIndicesFieldName,
                                multiIndex |-> multiIndex,
                                sep |-> addMultiIndexWithSep, axis |-> axis],
                               r.raised, pipedFunctions, registered, Nothing, Nothing,
                               r.pieces, r.result,
                               IF r.raised = "none"
                               THEN Export(r.result, rowIndicesFieldName)
                               ELSE Nothing)
            /\ UNCHANGED obj

Next ==
    \/ CallRename("Value")
    \/ \E sort \in BOOLEAN : Groupby("k", sort)
    \/ PipeCall
    \/ ResetStartingValues
    \/ Subtract
    \/ Add
    \/ Multiply
    \/ Divide
    \/ ResetIndexCall
    \/ Concat
    \/ ToJSON

Spec == Init /\ [][Next]_vars

-----------------------------------------------------------------------------
(* The transforms called one at a time on one table: each step hands the table *)
(* the previous step returned to _execute or _resetIndex, as the reduce of the *)
(* pipeline does, and pipedFunctions lists the steps taken so far              *)

FnInit ==
    /\ obj \in {[grouped |-> FALSE, df |-> t, by |-> "", sort |-> TRUE] :
                    t \in Tables(1..MaxRows, 0..MaxLabel, 0..MaxVal)}
    /\ pipedFunctions = <<>>
    /\ registered = <<>>
    /\ last = Outcome("__init__", <<>>, "none", <<>>, <<>>, Nothing, Nothing, <<>>,
                      Nothing, Nothing)

Step(op, args, pos, result) ==
    /\ Len(pipedFunctions) < MaxPipe
    /\ obj' = IF IsError(result) THEN obj ELSE [obj EXCEPT !.df = result]
    /\ pipedFunctions' = Append(pipedFunctions, args)
    /\ registered' = Append(registered, args)
    /\ last' = Outcome(op, args, IF IsError(result) THEN result.error ELSE "none",
                       pipedFunctions, registered, obj.df, pos, <<>>, result, Nothing)

ExecuteStep(index, column, operation) ==
    \E result \in {Execute(obj.df, index, column, operation)} :
        Step("_execute", ExecuteFn(index, column, operation),
             ResolvePos(obj.df, index, column), result)

ExecuteByRow ==
    \/ \E index \in {PyInt(0), PyInt(1), PyInt(-1), NpInt(1), PyStr("zz")},
          operation \in {"subtract", "divide"} :
           ExecuteStep(index, None, operation)
    \/ \E operation \in {"add", "multiply", "mod"} : ExecuteStep(PyInt(0), None, operation)

ExecuteByColumn ==
    \E column \in {PyStr("v"), PyInt(1)}, operation \in {"subtract", "divide"} :
        ExecuteStep(PyInt(0), column, operation)

ResetIndexStep ==
    \E resetPosition \in {0, 1}, handleFuture \in BOOLEAN :
        \E result \in {ResetIndex(obj.df, resetPosition, handleFuture)} :
            Step("_resetIndex",
                 [f |-> "_resetIndex", resetPosition |-> resetPosition,
                  handleFuture |-> handleFuture],
                 [pos |-> resetPosition], result)

FnNext == ExecuteByRow \/ ExecuteByColumn \/ ResetIndexStep

FnSpec == FnInit /\ [][FnNext]_vars

-----------------------------------------------------------------------------
(* Properties *)

Reassembly == {"concat", "toJSON"}

Returns == last.op \in Reassembly /\ last.raised = "none"

(* f_n(...f_2(f_1(x))), written from the outside in *)
RECURSIVE ManualApply(_, _)
ManualApply(funcs, x) ==
    IF funcs = <<>> THEN x
    ELSE Call(funcs[Len(funcs)], ManualApply(SubSeq(funcs, 1, Len(funcs) - 1), x))

(* C1: every piece a reassembly call produced is f_n(...f_2(f_1(x))) of its group's *)
(* table x, for the functions f_1..f_n in the order they were registered; with no   *)
(* function registered the piece is the group's table itself.                       *)
C1_RegistrationOrder ==
    (last.op \in Reassembly /\ obj.grouped) =>
        \A g \in 1..Len(last.pieces) :
            /\ last.pieces[g] = ManualApply(last.since, Groups(obj)[g].df)
            /\ last.since = <<>> => last.pieces[g] = Groups(obj)[g].df

(* C1 witness: two registered functions whose order matters were applied to a group *)
C1_Witness ==
    /\ Returns
    /\ Len(last.since) = 2
    /\ last.pieces # <<>>
    /\ last.pieces[1] # ManualApply(Reverse(last.since), Groups(obj)[1].df)

C3_NotGrouped ==
    [][(~obj.grouped /\ last'.op \in Reassembly) =>
            /\ last'.raised = "TypeError"
            /\ last'.pieces = <<>>
            /\ "nothing" \in DOMAIN last'.written
            /\ obj' = obj
            /\ pipedFunctions' = pipedFunctions]_vars

(* C3 witness: toJSON was refused on an ungrouped wrapper with a pending pipeline *)
C3_Witness ==
    /\ ~obj.grouped
    /\ last.op = "toJSON"
    /\ last.raised = "TypeError"
    /\ pipedFunctions # <<>>

(* C4: a concat that raises because a transform failed on some group leaves the     *)
(* wrapped grouping and the pending pipeline as they were; a non-empty pipeline     *)
(* becomes empty only in a reassembly that returns.                                 *)
C4_FailureKeepsPipeline ==
    [][/\ (obj.grouped /\ last'.op = "concat" /\ last'.raised # "none"
              /\ Len(last'.pieces) < Len(Groups(obj)))
           => (obj' = obj /\ pipedFunctions' = pipedFunctions)
       /\ (pipedFunctions # <<>> /\ pipedFunctions' = <<>>)
           => (last'.op \in Reassembly /\ last'.raised = "none")]_vars

(* C4 witness: concat raised on a later group after an earlier group was transformed *)
C4_Witness ==
    /\ obj.grouped
    /\ last.op = "concat"
    /\ last.raised # "none"
    /\ Len(last.pieces) >= 1
    /\ Len(last.pieces) < Len(Groups(obj))
    /\ pipedFunctions # <<>>

(* C5: the first groupby call turns the wrapped table into a grouping of the same   *)
(* table; nothing else does; once grouped the object never changes again, and a     *)
(* later groupby call returns without touching the pending pipeline.                *)
C5_GroupedOnce ==
    [][/\ ~obj.grouped => (obj'.grouped <=> last'.op = "groupby")
       /\ (~obj.grouped /\ last'.op = "groupby") => obj'.df = obj.df
       /\ obj.grouped => obj' = obj
       /\ last'.op = "groupby" =>
              (last'.raised = "none" /\ pipedFunctions' = pipedFunctions)]_vars

(* C5 witness: a groupby call with other options was issued on a grouped wrapper *)
C5_Witness ==
    /\ obj.grouped
    /\ last.op = "groupby"
    /\ last.args.sort # obj.sort
    /\ pipedFunctions # <<>>

IntegerSelectorOnRowAxis ==
    /\ last.op = "_execute"
    /\ last.args.column.type = "None"
    /\ last.args.index.type = "int"
    /\ last.input.index.dtype = "int64"
    /\ last.args.index.val \in Range(last.input.index.vals)

(* C6: when the row/column operator resolves an integer selector that equals one of *)
(* the integer labels of the row axis, the position is that of the first such label. *)
C6_ResolvesByLabel ==
    IntegerSelectorOnRowAxis =>
        last.pos = [pos |-> FirstPos(last.args.index.val, last.input.index.vals)]

SubtractByRow ==
    /\ last.op = "_execute"
    /\ last.args.operation = "subtract"
    /\ last.args.column.type = "None"
    /\ last.raised = "none"

Zero == <<0, 1>>

(* the 1-based row a resolved position stands for *)
RowOf(pos, n) == IF pos >= 0 THEN pos + 1 ELSE n + pos + 1

(* C7 as stated: after subtract(index=r) every numeric column is 0 at the reference *)
(* row, every cell of a numeric column is its original value minus the column's     *)
(* original value at the reference row, and the other columns are unchanged.        *)
C7_SubtractZeroesReference ==
    SubtractByRow =>
        LET before == last.input
            after == last.result
            ref == RowOf(last.pos.pos, NRows(before))
        IN  /\ after.index = before.index /\ after.columns = before.columns
            /\ \A c \in 1..Len(before.columns) :
                  IF before.dtypes[c] = "number"
                  THEN /\ after.data[c][ref] = Zero
                       /\ \A i \in 1..NRows(before) :
                              after.data[c][i] = FSub(before.data[c][i], before.data[c][ref])
                  ELSE after.data[c] = before.data[c]

(* C7 amended: the same, with 0 at the reference row for every numeric column whose *)
(* original value there is finite (NaN - NaN and inf - inf are NaN).                *)
C7_SubtractFinite ==
    SubtractByRow =>
        LET before == last.input
            after == last.result
            ref == RowOf(last.pos.pos, NRows(before))
        IN  /\ after.index = before.index /\ after.columns = before.columns
            /\ \A c \in 1..Len(before.columns) :
                  IF before.dtypes[c] = "number"
                  THEN /\ IsFinite(before.data[c][ref]) => after.data[c][ref] = Zero
                       /\ \A i \in 1..NRows(before) :
                              after.data[c][i] = FSub(before.data[c][i], before.data[c][ref])
                  ELSE after.data[c] = before.data[c]

(* C7 witness: subtract by the second row changed a finite cell of another row *)
C7_Witness ==
    /\ SubtractByRow
    /\ last.pos.pos = 1
    /\ IsFinite(last.input.data[2][2])
    /\ last.result.data[2][1] # last.input.data[2][1]
    /\ IsFinite(last.result.data[2][1])

(* the labels the pieces carry along the concatenation axis, joined to their group *)
JoinedLabels(groups, pieces, sep, axis) ==
    Flatten([g \in 1..Len(pieces) |->
        IF axis = 1
        THEN [c \in 1..Len(pieces[g].columns) |->
                 pieces[g].columns[c] \o sep \o groups[g].name]
        ELSE [i \in 1..NRows(pieces[g]) |->
                 LabelStr(pieces[g].index.dtype, pieces[g].index.vals[i])
                     \o sep \o groups[g].name]])

(* C8: every label of the axis concat(multiIndex='join', sep=s) relabels is L + s + G *)
(* for the label L the row or column carries in the transformed table of its group G, *)
(* group after group, whatever the pipeline did to the labels.                        *)
C8_JoinLabels ==
    (Returns /\ last.op = "concat" /\ last.args.multiIndex = "join") =>
        (IF last.args.axis = 1 THEN last.result.columns ELSE last.result.index.vals)
            = JoinedLabels(Groups(obj), last.pieces, last.args.sep, last.args.axis)

(* the text form of the i-th row label of a table *)
TextOfLabel(index, i) ==
    CASE index.dtype = "int64" -> IntStr(index.vals[i])
      [] index.dtype = "datetime64" -> StampStr(index.vals[i], "T")
      [] OTHER -> index.vals[i]

Count(s, v) == Cardinality({i \in DOMAIN s : s[i] = v})

(* the value a record holds under a key *)
Field(record, key) == record[CHOOSE i \in DOMAIN record : record[i][1] = key][2]

HasField(record, key) == \E i \in DOMAIN record : record[i][1] = key

Exported == Returns /\ last.op = "toJSON"

ResetIndexApplied == last.op = "_resetIndex" /\ last.raised = "none"

=============================================================================
